---- MODULE Spec2Model ----
(***************************************************************************)
(* Model of scripts/control_client.py: the CameraController (three PID     *)
(* axes integrated into a commanded position) and the ControllerNode       *)
(* (detection subscription, periodic control timer, GoToPose action        *)
(* client) as run by the single-threaded executor of rclpy.spin.           *)
(*                                                                         *)
(* Numbers are fixed point.  Lengths are in micrometres, velocities in     *)
(* micrometres per second, times in units of 1e-4 s and gains in           *)
(* hundredths; every product is divided back with truncation toward zero.  *)
(***************************************************************************)
EXTENDS Integers, Sequences, FiniteSets, TLC

\* ----------------------------------------------------------------- bounds
MaxTicks == 2
MaxTimers == 2
MaxEpochTicks == 5

\* ------------------------------------------------------ program constants
GainScale == 100
TimeScale == 10000
KP == 1
KI == 0
KD == 1
ERROR_THRESHOLD == 20000
Z_THRESHOLD == 200000
SAMPLE_TIME == 333
clip_val == 100000

Axes == 1..3

\* Elapsed wall-clock time between two calls of one PID object, as read by
\* the PID from the monotonic clock: shorter than, equal to, and longer than
\* the sample time.
Elapsed == {111, 333, 666}

\* Marker positions in camera_depth_frame offered by the detector.
MarkerPoints ==
    { <<0, 0, 150000>>, <<0, 0, 250000>>, <<0, -20000, 0>>, <<0, -20000000, 0>> }

\* Marker positions whose targets lie a few steps outside the thresholds.
LiveMarkerPoints == { <<0, 0, 150100>>, <<0, -20010, 0>> }

\* Marker positions one metre and twenty metres away, and one within the
\* thresholds.
StepMarkerPoints == { <<0, -1000000, 0>>, <<0, -20000000, 0>>, <<0, 0, 150000>> }

\* World-from-camera transforms the tf buffer may hold: quarter turns about
\* z followed by a translation.
Transforms ==
    { [rot |-> 0, t |-> <<0, 0, 50000>>],
      [rot |-> 1, t |-> <<0, 0, 0>>] }

TfOutcomes == {"ok", "LookupException", "ConnectivityException", "ExtrapolationException"}

\* MarkerArray messages: no marker, one marker, or a first marker followed
\* by a second candidate.
CoreMarkerPoints == { <<0, 0, 150000>>, <<0, 0, 250000>> }

SingleMessages(points) == {<<>>} \cup {<<m>> : m \in points}

Messages(points) ==
    SingleMessages(points) \cup {<<m, <<0, 0, 250000>> >> : m \in points}

\* ---------------------------------------------------------------- helpers
Abs(v) == IF v < 0 THEN -v ELSE v

\* Quotient truncated toward zero (the fixed-point rounding of the model).
Div(a, b) == IF a >= 0 THEN a \div b ELSE -((-a) \div b)

Min(a, b) == IF a < b THEN a ELSE b
Max(a, b) == IF a > b THEN a ELSE b

\* tf2_geometry_msgs.do_transform_point
do_transform_point(p, tr) ==
    IF tr.rot = 0
    THEN <<p[1] + tr.t[1], p[2] + tr.t[2], p[3] + tr.t[3]>>
    ELSE <<-p[2] + tr.t[1], p[1] + tr.t[2], p[3] + tr.t[3]>>

\* -------------------------------------------------------------------- PID
\* One simple_pid.PID object as constructed by CameraController.__init__:
\* PID(KP, KI, KD), setpoint 0, no output limits, derivative on measurement.
PIDInit ==
    [setpoint |-> 0, integral |-> 0, last_input |-> 0, last_error |-> 0,
     last_output |-> 0, has_last |-> FALSE]

\* pid(input) with dt the time elapsed since the previous computation.
\* Returns the PID object after the call; the value returned by the call is
\* its last_output.
PIDCall(p, input, dt) ==
    IF dt < SAMPLE_TIME /\ p.has_last
    THEN p
    ELSE LET error == p.setpoint - input
             d_input == IF p.has_last THEN input - p.last_input ELSE 0
             proportional == Div(KP * error, GainScale)
             integral == p.integral + Div(KI * error * dt, GainScale * TimeScale)
             derivative == -Div(KD * d_input * TimeScale, GainScale * dt)
         IN [p EXCEPT !.integral = integral,
                      !.last_input = input,
                      !.last_error = error,
                      !.last_output = proportional + integral + derivative,
                      !.has_last = TRUE]

\* --------------------------------------------------------------- variables
VARIABLES
    position,                 \* CameraController.position, <<x, y, z>>
    pid,                      \* pid_x, pid_y, pid_z
    timers,                   \* timers created by the node: TRUE while active
    camera_controller_timer,  \* index of the timer the field refers to, 0 = None
    pc,                       \* what the executor thread is doing
    goal_msg,                 \* goal built by the send_goal call in progress
    requests,                 \* goal requests submitted to the action server
    send_goal_future,         \* request the field _send_goal_future refers to
    published,                \* arrays published on goal_coordinates
    hist,                     \* observations of the callbacks that have run
    seen                      \* inputs the environment handed to the node

vars == <<position, pid, timers, camera_controller_timer, pc, goal_msg,
          requests, send_goal_future, published, hist, seen>>

\* --------------------------------------------------------- CameraController
\* A set_new_goal that also resets the internal variables of the PIDs.
set_new_goal_reset(pids, target) ==
    [a \in Axes |-> [PIDInit EXCEPT !.setpoint = target[a]]]

\* set_new_goal(target_x, target_y, target_z): assigns the three setpoints.
set_new_goal(pids, target) ==
    [a \in Axes |-> [pids[a] EXCEPT !.setpoint = target[a]]]

get_position_error(pos, pids) ==
    <<Abs(pos[1] - pids[1].setpoint),
      Abs(pos[2] - pids[2].setpoint),
      Abs(pos[3] - pids[3].setpoint)>>

\* Saturation with the lower bound forgotten: min(velocity, clip_val).
SaturateAboveOnly(velocity) == Min(velocity, clip_val)

\* max(min(velocity, clip_val), -clip_val)
Saturate(velocity) == Max(Min(velocity, clip_val), -clip_val)

\* velocity_x, velocity_y, velocity_z of update_position after saturation,
\* given the PID objects after their calls
Velocity(pids) == [a \in Axes |-> Saturate(pids[a].last_output)]

\* An integration that adds the velocity without the sample time.
update_position_no_dt(pos, pids) ==
    [a \in Axes |-> pos[a] + Velocity(pids)[a]]

\* An integration with the sign of the step reversed.
update_position_reversed(pos, pids) ==
    [a \in Axes |-> pos[a] - Div(Velocity(pids)[a] * SAMPLE_TIME, TimeScale)]

\* position after update_position, given the PID objects after their calls
update_position(pos, pids) ==
    [a \in Axes |-> pos[a] + Div(Velocity(pids)[a] * SAMPLE_TIME, TimeScale)]

\* ------------------------------------------------------------ ControllerNode
\* The test with ERROR_THRESHOLD used for all three axes.
ConvergenceTestOneThreshold(err) ==
    /\ Abs(err[1]) < ERROR_THRESHOLD
    /\ Abs(err[2]) < ERROR_THRESHOLD
    /\ Abs(err[3]) < ERROR_THRESHOLD

\* The test of control_loop on the errors returned by get_position_error.
ConvergenceTest(err) ==
    /\ Abs(err[1]) < ERROR_THRESHOLD
    /\ Abs(err[2]) < ERROR_THRESHOLD
    /\ Abs(err[3]) < Z_THRESHOLD

ActiveTimers == {t \in 1..Len(timers) : timers[t]}

\* The scheduler state the node holds implicitly in camera_controller_timer.
SchedulerState ==
    IF camera_controller_timer = 0 THEN "Idle"
    ELSE IF timers[camera_controller_timer] THEN "Running"
    ELSE "Converged"

\* The executor runs one callback at a time: a callback is taken only when
\* no other callback is in progress.
ExecutorFree == pc = "idle"

\* Observations of the callbacks run so far: control_loop calls (ticks),
\* update_position calls (updates), Timer.cancel calls (cancels); the same
\* since the latest successful detection (eTicks, eUpdates, eCancels), whether
\* that detection's target passed the convergence test at once (eWithin) and
\* whether a tick since then has cancelled the timer (converged); and, of the
\* latest tick, the errors it read (err), the branch it took (conv) and, of
\* the latest step, the PID outputs (raw), the velocities applied (vel) and
\* the position it started from (from).
HistInit ==
    [ticks |-> 0, updates |-> 0, cancels |-> 0,
     eTicks |-> 0, eCancels |-> 0, eUpdates |-> 0, eWithin |-> FALSE,
     converged |-> FALSE,
     err |-> <<0, 0, 0>>, conv |-> FALSE,
     raw |-> <<0, 0, 0>>, vel |-> <<0, 0, 0>>, from |-> <<0, 0, 0>>]

\* The inputs of the latest detection_callback (its message, the outcome of
\* lookup_transform and the transform found), a flag flipped by every
\* detection_callback, the number of ticks run before it, and whether the
\* latest wait_for_server found the server, and the PIDs whose latest call
\* came before the sample time had elapsed.  Only the specifications that
\* observe the inputs record them.
SeenInit ==
    [det |-> FALSE, msg |-> <<>>, outcome |-> "ok",
     tr |-> [rot |-> 0, t |-> <<0, 0, 0>>], ticks |-> 0, ready |-> TRUE,
     stale |-> [a \in Axes |-> FALSE]]

Init ==
    /\ seen = SeenInit
    /\ position = <<0, 0, 0>>
    /\ pid = [a \in Axes |-> PIDInit]
    /\ timers = <<>>
    /\ camera_controller_timer = 0
    /\ pc = "idle"
    /\ goal_msg = <<0, 0, 0>>
    /\ requests = <<>>
    /\ send_goal_future = 0
    /\ published = <<>>
    /\ hist = HistInit

\* The last marker of the message.
LastMarker(msg) == msg[Len(msg)]

\* marker = msg.markers[0]
FirstMarker(msg) == msg[1]

\* An except clause naming LookupException alone.
CaughtLookupOnly == {"LookupException"}

\* The exceptions the except clause of detection_callback names.
Caught == {"LookupException", "ConnectivityException", "ExtrapolationException"}

\* detection_callback(msg) with the outcome of lookup_transform.  An
\* exception the except clause does not name leaves the callback and rclpy.spin
\* and ends the process.
detection_callback(msg, outcome, tr) ==
    /\ ExecutorFree
    /\ IF Len(msg) > 0 /\ outcome = "ok"
       THEN LET world_point == do_transform_point(FirstMarker(msg), tr)
                pids == set_new_goal(pid, world_point)
            IN /\ Len(timers) < MaxTimers
               /\ pid' = pids
               /\ timers' = Append(timers, TRUE)
               /\ camera_controller_timer' = Len(timers) + 1
               /\ hist' = [hist EXCEPT
                    !.eTicks = 0, !.eCancels = 0, !.eUpdates = 0,
                    !.eWithin = ConvergenceTest(get_position_error(position, pids)),
                    !.converged = FALSE]
       ELSE UNCHANGED <<pid, timers, camera_controller_timer, hist>>
    /\ pc' = IF Len(msg) > 0 /\ outcome # "ok" /\ outcome \notin Caught
             THEN "crashed"
             ELSE pc
    /\ UNCHANGED <<position, goal_msg, requests, send_goal_future, published>>

\* A goal whose z is filled from y.
GoalPositionWrongZ(x, y, z) == <<x, y, y>>

\* GoToPose.Goal position built by send_goal(x, y, z)
GoalPosition(x, y, z) == <<x, y, z>>

\* Float32MultiArray data built by control_loop
GoalCoordinates(goal_x, goal_y, goal_z) == <<goal_x, goal_y, goal_z>>

\* control_loop fired by timer t with dts the time each PID finds elapsed
\* since its last computation.  On the converged branch this is the whole
\* callback; otherwise it runs up to the wait_for_server call of send_goal,
\* where the executor thread stays until send_goal below completes the
\* callback.
control_loop(t, dts) ==
    /\ ExecutorFree
    /\ t \in ActiveTimers
    /\ LET err == get_position_error(position, pid)
       IN IF ConvergenceTest(err)
          THEN /\ timers' = [timers EXCEPT ![camera_controller_timer] = FALSE]
               /\ hist' = [hist EXCEPT
                    !.ticks = @ + 1, !.cancels = @ + 1,
                    !.eTicks = @ + 1, !.eCancels = @ + 1,
                    !.converged = TRUE,
                    !.err = err, !.conv = TRUE]
               /\ UNCHANGED <<position, pid, pc, goal_msg, published>>
          ELSE LET pids == [a \in Axes |-> PIDCall(pid[a], position[a], dts[a])]
                   pos == update_position(position, pids)
               IN /\ pid' = pids
                  /\ position' = pos
                  /\ published' = Append(published,
                                         GoalCoordinates(pos[1], pos[2], pos[3]))
                  /\ goal_msg' = GoalPosition(pos[1], pos[2], pos[3])
                  /\ pc' = "wait_for_server"
                  /\ hist' = [hist EXCEPT
                       !.ticks = @ + 1, !.updates = @ + 1,
                       !.eTicks = @ + 1, !.eUpdates = @ + 1,
                       !.err = err, !.conv = FALSE,
                       !.raw = [a \in Axes |-> pids[a].last_output],
                       !.vel = Velocity(pids),
                       !.from = position]
                  /\ UNCHANGED timers
    /\ UNCHANGED <<camera_controller_timer, requests, send_goal_future>>

\* send_goal spinning on the send future inside the timer callback.
AfterSendSpin == "spin_until_future_complete"

\* What the executor thread does once send_goal has registered its callback.
AfterSend == "idle"

\* A send_goal that returns without sending when the server was not found.
SubmitsIfReady(server_ready) == server_ready

\* Whether send_goal goes on to send_goal_async after wait_for_server: the
\* value wait_for_server returns is not read.
Submits(server_ready) == TRUE

\* The rest of send_goal: wait_for_server returns (server_ready tells whether
\* the server was found within the timeout; the code ignores the answer), the
\* goal is sent and the response callback registered.
send_goal(server_ready) ==
    /\ pc = "wait_for_server"
    /\ IF Submits(server_ready)
       THEN /\ requests' = Append(requests,
                   [position |-> goal_msg, outcome |-> "Sent",
                    accepted |-> FALSE, result_requested |-> FALSE])
            /\ send_goal_future' = Len(requests) + 1
       ELSE UNCHANGED <<requests, send_goal_future>>
    /\ pc' = AfterSend
    /\ UNCHANGED <<position, pid, timers, camera_controller_timer, goal_msg,
                   published, hist>>

\* A done callback reading the node's _send_goal_future field instead of the
\* future it is handed.
FutureRequestFromField(i) == send_goal_future

\* The request whose future is handed to a done callback.
FutureRequest(i) == i

\* goal_response_callback without its early return on rejection.
RequestsResultAlways(accepted) == TRUE

\* Whether goal_response_callback goes on to request the result.
RequestsResult(accepted) == accepted

\* goal_response_callback(future) for the send future of request i.
goal_response_callback(i, accepted) ==
    /\ ExecutorFree
    /\ i \in 1..Len(requests)
    /\ requests[i].outcome = "Sent"
    /\ LET j == FutureRequest(i)
       IN IF RequestsResult(accepted)
          THEN requests' = [requests EXCEPT
                    ![j].outcome = "AwaitingResult",
                    ![j].accepted = accepted,
                    ![j].result_requested = TRUE]
          ELSE requests' = [requests EXCEPT
                    ![j].outcome = "Rejected",
                    ![j].accepted = accepted]
    /\ UNCHANGED <<position, pid, timers, camera_controller_timer, pc, goal_msg,
                   send_goal_future, published, hist>>

\* A get_result_callback that stops the control timers on a failed result.
ResultTimersStopOnFailure(success) ==
    IF success THEN timers ELSE [t \in 1..Len(timers) |-> FALSE]

\* The timers after get_result_callback: both branches only log.
ResultTimers(success) == timers

\* get_result_callback(future) for the result future of request i.
get_result_callback(i, success) ==
    /\ ExecutorFree
    /\ i \in 1..Len(requests)
    /\ requests[i].outcome = "AwaitingResult"
    /\ requests' = [requests EXCEPT
         ![FutureRequest(i)].outcome = IF success THEN "Succeeded" ELSE "Failed"]
    /\ timers' = ResultTimers(success)
    /\ UNCHANGED <<position, pid, camera_controller_timer, pc, goal_msg,
                   send_goal_future, published, hist>>

\* A detection message arrives; lookup_transform is reached only for a
\* message with markers, and only a successful lookup yields a transform.
Receive(msgs) ==
    \E msg \in msgs :
      \E outcome \in (IF msg = <<>> THEN {"ok"} ELSE TfOutcomes) :
        \E tr \in (IF msg # <<>> /\ outcome = "ok"
                   THEN Transforms
                   ELSE {[rot |-> 0, t |-> <<0, 0, 0>>]}) :
          detection_callback(msg, outcome, tr)

Detection == Receive(Messages(CoreMarkerPoints)) /\ UNCHANGED seen

DetectionAny == Receive(SingleMessages(MarkerPoints)) /\ UNCHANGED seen

DetectionStep == Receive(SingleMessages(StepMarkerPoints)) /\ UNCHANGED seen

Tick ==
    /\ hist.ticks < MaxTicks
    /\ \E t \in 1..Len(timers), dts \in [Axes -> Elapsed] : control_loop(t, dts)
    /\ UNCHANGED seen

DetectionLive == Receive(SingleMessages(LiveMarkerPoints)) /\ UNCHANGED seen

\* The three PIDs are called one after the other within one callback:
\* elapsed times that are the same on the three axes.
SameElapsed == {[a \in Axes |-> d] : d \in Elapsed}

\* A tick with the PIDs that skipped their computation recorded.  The PID
\* measures the time since its last computation on the monotonic clock, and a
\* skipped call does not restart it: the call after a skipped one finds at
\* least the sample time elapsed.
TickLive ==
    /\ hist.eTicks < MaxEpochTicks
    /\ \E t \in 1..Len(timers), dts \in SameElapsed :
         /\ \A a \in Axes : seen.stale[a] => dts[a] >= SAMPLE_TIME
         /\ control_loop(t, dts)
         /\ seen' = [seen EXCEPT !.stale = [a \in Axes |->
                /\ ~ConvergenceTest(get_position_error(position, pid))
                /\ pid[a].has_last
                /\ dts[a] < SAMPLE_TIME]]

Send ==
    /\ \E server_ready \in BOOLEAN : send_goal(server_ready)
    /\ UNCHANGED seen

Response ==
    /\ \E i \in 1..Len(requests), accepted \in BOOLEAN :
         goal_response_callback(i, accepted)
    /\ UNCHANGED seen

Result ==
    /\ \E i \in 1..Len(requests), success \in BOOLEAN :
         get_result_callback(i, success)
    /\ UNCHANGED seen

\* The same callbacks with their inputs recorded.
DetectionSeen ==
    \E msg \in Messages(CoreMarkerPoints) :
      \E outcome \in (IF msg = <<>> THEN {"ok"} ELSE TfOutcomes) :
        \E tr \in (IF msg # <<>> /\ outcome = "ok"
                   THEN Transforms
                   ELSE {[rot |-> 0, t |-> <<0, 0, 0>>]}) :
          /\ detection_callback(msg, outcome, tr)
          /\ seen' = [seen EXCEPT !.det = ~@, !.msg = msg, !.outcome = outcome,
                                   !.tr = tr, !.ticks = hist.ticks]

SendSeen ==
    \E server_ready \in BOOLEAN :
        /\ send_goal(server_ready)
        /\ seen' = [seen EXCEPT !.ready = server_ready]

Next == Detection \/ Tick \/ Send \/ Response \/ Result

Spec == Init /\ [][Next]_vars

\* The node with an action server that never answers, over the full set of
\* marker positions.
NextControl == DetectionAny \/ Tick \/ Send

SpecControl == Init /\ [][NextControl]_vars

\* The same over the marker positions far from the camera.
NextStep == DetectionStep \/ Tick \/ Send

SpecStep == Init /\ [][NextStep]_vars

\* The node with an action server that never answers, with the inputs of
\* detection_callback recorded.
NextSeen == DetectionSeen \/ Tick \/ Send

SpecSeen == Init /\ [][NextSeen]_vars

\* The node with timers that keep firing and a send_goal that returns, over
\* targets a few steps away; ticks are counted per target.
NextLive == DetectionLive \/ TickLive \/ Send

SpecLive == Init /\ [][NextLive]_vars /\ WF_vars(TickLive) /\ WF_vars(Send)

\* The same with the outcome of wait_for_server recorded instead.
NextSent == Detection \/ Tick \/ SendSeen

SpecSent == Init /\ [][NextSent]_vars

\* ------------------------------------------------------------------ claims
Pending == {"Sent", "AwaitingResult"}
Terminal == {"Rejected", "Succeeded", "Failed"}

\* C1: in every reachable state at most one periodic control timer is
\* active, whatever detections, ticks and responses came before.
C1_SingleActiveTimer == Cardinality(ActiveTimers) <= 1

\* C2: once a tick has found the convergence test true and cancelled the
\* timer, control_loop does not run again until a detection sets a new target
\* (a detection leaves the number of ticks unchanged and clears the flag).
C2_ConvergedIsTerminal == [][hist.converged => hist'.ticks = hist.ticks]_vars

\* C3: when the target of the latest detection was within the thresholds of
\* the position, the ticks that follow it leave the scheduler Converged, have
\* issued exactly one timer cancel, and have made no position update (hence no
\* publish and no goal send).
C3_OneTickOneCancel ==
    (hist.eWithin /\ hist.eTicks >= 1) =>
        /\ SchedulerState = "Converged"
        /\ hist.eCancels = 1
        /\ hist.eUpdates = 0

\* C4: each non-converged tick makes one update_position step, then one
\* publish of the post-step position, then one send_goal of that same
\* position: between callbacks the requests, the published arrays and the
\* steps are equal in number and pairwise equal in position, the latest being
\* the current (post-step) position; inside send_goal the goal being sent is
\* the array just published.
C4_StepPublishSend ==
    /\ hist.ticks = hist.updates + hist.cancels
    /\ Len(published) = hist.updates
    /\ hist.updates > 0 =>
         /\ published[Len(published)] = position
         /\ position = update_position(hist.from, pid)
    /\ pc = "idle" =>
         /\ Len(requests) = Len(published)
         /\ \A i \in 1..Len(requests) : requests[i].position = published[i]
    /\ pc = "wait_for_server" =>
         /\ Len(requests) + 1 = Len(published)
         /\ goal_msg = published[Len(published)]
         /\ \A i \in 1..Len(requests) : requests[i].position = published[i]

C4_Witness ==
    /\ pc = "idle"
    /\ Len(requests) = 2
    /\ requests[2].position = position
    /\ requests[1].position # requests[2].position

\* C5: the control output applied by update_position has magnitude at most
\* clip_val on every axis, and the step moves each axis by at most
\* clip_val * sample_time.
C5_Saturation ==
    hist.updates > 0 =>
        \A a \in Axes :
            /\ Abs(hist.vel[a]) <= clip_val
            /\ Abs(position[a] - hist.from[a]) <= Div(clip_val * SAMPLE_TIME, TimeScale)

C5_Witness ==
    /\ hist.updates > 1
    /\ \E a \in Axes :
         /\ hist.raw[a] < -clip_val
         /\ hist.vel[a] = -clip_val
         /\ position[a] - hist.from[a] = -Div(clip_val * SAMPLE_TIME, TimeScale)

\* C6: a tick declares convergence exactly when err_x < 0.02, err_y < 0.02
\* and err_z < 0.20, all strict: errors (0, 0, 0.15) converge, errors
\* (0, 0, 0.25) do not, and an error equal to its threshold does not.
C6_ConvergenceTest ==
    hist.ticks > 0 =>
        /\ hist.conv <=> (hist.err[1] < 20000 /\ hist.err[2] < 20000 /\ hist.err[3] < 200000)
        /\ hist.err = <<0, 0, 150000>> => hist.conv
        /\ hist.err = <<0, 0, 250000>> => ~hist.conv
        /\ (hist.err[1] = ERROR_THRESHOLD \/ hist.err[2] = ERROR_THRESHOLD
              \/ hist.err[3] = Z_THRESHOLD) => ~hist.conv

C6_Witness ==
    /\ hist.ticks > 0
    /\ hist.err = <<0, 0, 150000>>
    /\ hist.conv

\* C7: the outcome of every goal request only moves forward, Sent to Rejected
\* or Sent to Accepted/AwaitingResult to Succeeded or Failed, and a request
\* that is Rejected, Succeeded or Failed is never changed again.
Forward ==
    { <<"Sent", "Rejected">>, <<"Sent", "AwaitingResult">>,
      <<"AwaitingResult", "Succeeded">>, <<"AwaitingResult", "Failed">> }

C7_DispatcherMonotonic ==
    [][/\ Len(requests') >= Len(requests)
       /\ \A i \in 1..Len(requests) :
            \/ requests'[i] = requests[i]
            \/ /\ <<requests[i].outcome, requests'[i].outcome>> \in Forward
               /\ requests'[i].position = requests[i].position]_vars

C7_Witness ==
    /\ Len(requests) = 2
    /\ requests[1].outcome = "Succeeded"
    /\ requests[2].outcome = "Rejected"

\* C8: the result is requested for a request exactly when its goal handle
\* was accepted: a request awaiting or holding a result was accepted, and a
\* rejected request never has a result requested.
C8_ResultOnlyIfAccepted ==
    \A i \in 1..Len(requests) :
        LET r == requests[i]
        IN /\ r.result_requested <=> r.accepted
           /\ r.outcome \in {"AwaitingResult", "Succeeded", "Failed"} =>
                r.accepted /\ r.result_requested
           /\ r.outcome \in {"Sent", "Rejected"} => ~r.result_requested

C8_Witness ==
    /\ Len(requests) = 2
    /\ requests[1].outcome = "Rejected"
    /\ requests[2].outcome = "Failed"

\* C9: the tick never waits for an accept/reject response or a result:
\* send_goal always completes by itself, and outside send_goal's wait for the
\* server every active timer can tick (up to the tick bound of the model),
\* however many requests are still Sent or AwaitingResult.
C9_TickNotBlockedByResponses ==
    /\ pc = "wait_for_server" => ENABLED Send
    /\ (pc # "wait_for_server" /\ hist.ticks < MaxTicks) =>
         \A t \in ActiveTimers : ENABLED (\E dts \in [Axes -> Elapsed] : control_loop(t, dts))

C9_Witness ==
    /\ Len(requests) = 2
    /\ requests[1].outcome \in Pending
    /\ requests[2].outcome = "Sent"
    /\ hist.eUpdates = 2

\* C10: while send_goal waits for the action server to become reachable,
\* other callbacks of the executor (ticks, detections, response and result
\* callbacks) can still run.
C10_WaitDoesNotBlock ==
    pc = "wait_for_server" => ENABLED (Detection \/ Tick \/ Response \/ Result)

\* C11: a detection_callback whose transform lookup raises LookupException,
\* ConnectivityException or ExtrapolationException leaves the setpoints, the
\* position, the PID memory, the timers and everything else of the node
\* unchanged (no retry); after it, a loop that is Running can still tick (up
\* to the tick bound of the model), on the setpoints it had before.
C11_FailedTransformDiscarded ==
    /\ [][(seen'.det # seen.det /\ seen'.msg # <<>> /\ seen'.outcome # "ok") =>
            UNCHANGED <<position, pid, timers, camera_controller_timer, pc,
                        goal_msg, requests, send_goal_future, published,
                        hist>>]_vars
    /\ []((seen.outcome # "ok" /\ pc = "idle" /\ hist.ticks < MaxTicks) =>
            \A t \in ActiveTimers :
                ENABLED (\E dts \in [Axes -> Elapsed] : control_loop(t, dts)))

C11_Witness ==
    /\ seen.outcome = "ConnectivityException"
    /\ hist.ticks > seen.ticks
    /\ SchedulerState = "Running"
    /\ ~hist.conv
    /\ pid[3].setpoint # 0

\* C12: a step in which a request becomes Rejected or Failed (and any other
\* step of goal_response_callback or get_result_callback) leaves the timers,
\* the scheduler state, the position and the setpoints unchanged and submits
\* no request; whatever the outcomes of earlier requests, a tick on which the
\* convergence test fails enters send_goal, which can always complete and
\* submits one new request.
C12_RejectionLeavesLoop ==
    /\ [][(\E i \in 1..Len(requests) :
              i <= Len(requests') /\ requests'[i].outcome # requests[i].outcome) =>
             (/\ Len(requests') = Len(requests)
              /\ UNCHANGED <<position, pid, timers, camera_controller_timer,
                             pc, goal_msg, send_goal_future, published, hist>>)]_vars
    /\ [][(hist'.ticks # hist.ticks /\ ~hist'.conv) => pc' = "wait_for_server"]_vars
    /\ [][(pc = "wait_for_server" /\ pc' # pc) =>
             Len(requests') = Len(requests) + 1]_vars
    /\ [](pc = "wait_for_server" => ENABLED Send)
    /\ []((pc = "idle" /\ hist.ticks < MaxTicks) => \A t \in ActiveTimers :
             ENABLED (\E dts \in [Axes -> Elapsed] : control_loop(t, dts)))

\* The first request was rejected or failed before the second tick, which
\* is now inside send_goal.
C12_Witness ==
    /\ Len(requests) = 1
    /\ requests[1].outcome \in {"Rejected", "Failed"}
    /\ pc = "wait_for_server"
    /\ SchedulerState = "Running"

\* C13: requests in flight are independent and never cancelled: a send
\* appends one request and leaves every earlier request as it was, the
\* response or result for request i changes request i and no other (whichever
\* request _send_goal_future refers to), no request is ever removed, and
\* send_goal can complete however many requests are pending.
C13_InFlightIndependent ==
    /\ [][/\ Len(requests') >= Len(requests)
           /\ Len(requests') > Len(requests) =>
                 \A k \in 1..Len(requests) : requests'[k] = requests[k]]_vars
    /\ [][\A i \in 1..Len(requests) :
             ((\E accepted \in BOOLEAN : goal_response_callback(i, accepted))
                \/ (\E success \in BOOLEAN : get_result_callback(i, success))) =>
                 (/\ requests'[i].outcome # requests[i].outcome
                  /\ \A k \in 1..Len(requests) :
                        k # i => requests'[k] = requests[k])]_vars
    /\ [](pc = "wait_for_server" => ENABLED Send)
    /\ [](\A k \in 1..Len(requests) : requests[k].outcome \in Pending \cup Terminal)

\* The later request has run to its result while the earlier one, sent
\* before it, is still unanswered.
C13_Witness ==
    /\ Len(requests) = 2
    /\ requests[1].outcome = "Sent"
    /\ requests[2].outcome = "Succeeded"
    /\ send_goal_future = 2

\* C14: every call of send_goal submits exactly one request, carrying the
\* goal it was called with, whether wait_for_server found the server or timed
\* out, and then returns to the executor: the wait can always end, and
\* between callbacks there are as many requests as send_goal calls.
C14_DegradeAndSend ==
    /\ [][(pc = "wait_for_server" /\ pc' # pc) =>
             (/\ pc' = "idle"
              /\ Len(requests') = Len(requests) + 1
              /\ requests'[Len(requests')].position = goal_msg
              /\ requests'[Len(requests')].outcome = "Sent"
              /\ \A k \in 1..Len(requests) : requests'[k] = requests[k])]_vars
    /\ [](pc = "wait_for_server" => ENABLED SendSeen)
    /\ [](pc = "idle" => Len(requests) = hist.updates)

\* Two calls of send_goal, the latest after a wait that timed out.
C14_Witness ==
    /\ ~seen.ready
    /\ pc = "idle"
    /\ hist.updates = 2
    /\ Len(requests) = 2

Setpoints(pids) == [a \in Axes |-> pids[a].setpoint]
Memory(pids) == [a \in Axes |-> [pids[a] EXCEPT !.setpoint = 0]]

C17_StepIntegration ==
    hist.updates > 0 =>
        /\ \A a \in Axes :
              LET out == hist.raw[a]
                  clipped == IF out > 100000 THEN 100000
                             ELSE IF out < -100000 THEN -100000 ELSE out
              IN position[a] - hist.from[a] = Div(clipped * 333, 10000)
        /\ (hist.updates = 1 /\ hist.eUpdates = 1 /\ hist.from = <<0, 0, 0>>
              /\ Setpoints(pid) = <<1000000, 0, 0>>) =>
                /\ hist.raw = <<10000, 0, 0>>
                /\ position = <<333, 0, 0>>

C17_Witness ==
    /\ hist.updates = 1
    /\ hist.eUpdates = 1
    /\ hist.from = <<0, 0, 0>>
    /\ Setpoints(pid) = <<1000000, 0, 0>>
    /\ hist.vel = <<10000, 0, 0>>
    /\ position = <<333, 0, 0>>

\* C19: a detection_callback whose lookup succeeds sets the setpoints to the
\* transformed position of the first marker of its message, whatever markers
\* follow it, and creates one timer; a detection_callback whose message has no
\* marker changes nothing: no setpoint, no timer, no publish, no request.
C19_FirstCandidateOnly ==
    [][seen'.det # seen.det =>
         /\ (Len(seen'.msg) >= 1 /\ seen'.outcome = "ok") =>
               /\ Setpoints(pid') = do_transform_point(seen'.msg[1], seen'.tr)
               /\ Len(timers') = Len(timers) + 1
         /\ Len(seen'.msg) = 0 =>
               UNCHANGED <<position, pid, timers, camera_controller_timer, pc,
                           goal_msg, requests, send_goal_future, published,
                           hist>>]_vars

\* The latest message held two different markers and the setpoints are
\* those of the first, not of the second.
C19_Witness ==
    /\ Len(seen.msg) = 2
    /\ seen.msg[1] # seen.msg[2]
    /\ seen.outcome = "ok"
    /\ hist.eTicks = 0
    /\ Setpoints(pid) = do_transform_point(seen.msg[1], seen.tr)
    /\ Setpoints(pid) # do_transform_point(seen.msg[2], seen.tr)

\* C20: after a successful detection, with timers that keep firing and no
\* further detection, the loop reaches a tick on which the convergence test
\* holds and the timer is cancelled, from every position reached and for every
\* target of the domain.
C20_ConvergenceLiveness ==
    (SchedulerState = "Running") ~>
        (hist.converged /\ SchedulerState = "Converged")

\* Convergence of a second target, after steps made from the position the
\* first target left.
C20_Witness ==
    /\ Len(timers) = 2
    /\ hist.converged
    /\ SchedulerState = "Converged"
    /\ hist.eUpdates >= 2
    /\ hist.updates > hist.eUpdates

====
